---- MODULE Spec2Model ----
(***************************************************************************)
(* Session / authorization core of the Blueprints MCP server:              *)
(*   AuthManager            (src/src/auth.ts)                              *)
(*   HTTPTransport          (src/unnamed/part_001)                         *)
(*   BlueprintsMCPServer    (src/unnamed/part_000, receiveMessage)         *)
(* Time is in milliseconds, as Date.getTime() gives it.                    *)
(***************************************************************************)
EXTENDS Integers, Sequences, FiniteSets, TLC

VARIABLES
  sessions,        \* AuthManager.sessions : Map<string, SessionData>
  now,             \* the wall clock read by new Date()
  serverInstance,  \* HTTPTransport.serverInstance
  running,         \* the node process is alive
  exchange,        \* the HTTP exchange being served: request read, response written
  call,            \* the last direct call of AuthManager's public API
  backend,         \* the fetch of BlueprintsAPIClient.makeRequest in flight
  unswept          \* history: AuthManager.sessions if no sweep ever ran

vars ==
  <<sessions, now, serverInstance, running, exchange, call, backend, unswept>>

(***************************************************************************)
(* Bounds of the model and samples of the inputs.                          *)
(***************************************************************************)
\* the clock advances by 1 ms at most MaxDrift times within a lifetime ...
MaxDrift == 1
\* ... and by a whole session lifetime at most MaxEpoch times
MaxEpoch == 1

\* values generateSecureSessionId may return (32 hex characters in the code)
SessionIds == {"3f9a", "c27e"}
\* a session id a client supplies: one of these, one that was never issued,
\* or "" for none / empty
NoId == ""
SuppliedIds == SessionIds \cup {"0000", NoId}

\* Authorization headers a client sends; "" stands for a missing header
AuthHeaders ==
  { "",                      \* no header
    "Basic bp_sk_abc",       \* not the Bearer scheme
    "Bearer sk_bp_abcdef",   \* token without the bp_sk_ prefix
    "Bearer bp_sk_ab",       \* prefix right, length 8
    "Bearer bp_sk_abc",      \* format-valid, length 9
    "Bearer bp_sk_other1" }  \* a second format-valid token

Verbs == {"POST", "GET"}
Paths == {"/mcp/messages", "/health"}

\* method names of the requests; the last is a key every JS object inherits
Methods ==
  { "initialize", "notifications/initialized", "list_agents", "send_terminal",
    "tools/call", "toString" }

\* JSON-RPC ids of the requests (a request may also carry none)
MsgIds == {0, 1}

\* request bodies: text JSON.parse rejects, or a parsed message
Unparsable == [kind |-> "unparsable", hasId |-> FALSE, id |-> 0, method |-> ""]
Unread     == [kind |-> "unread", hasId |-> FALSE, id |-> 0, method |-> ""]
Messages ==
  [kind : {"message"}, hasId : {TRUE}, id : MsgIds, method : Methods]
    \cup [kind : {"message"}, hasId : {FALSE}, id : {0}, method : Methods]
Bodies == {Unparsable} \cup Messages

\* the tools registerTools registers
Tools ==
  { "list_agents", "create_agent", "start_agent", "stop_agent",
    "edit_agent_config", "remove_agent", "send_message", "send_terminal",
    "agent_status", "account_register", "pay_upgrade" }

\* method names getRequiredScope is asked about: the tools in both
\* spellings and the other methods of the requests
MethodNames == Methods \cup Tools \cup {"tools/" \o op : op \in Tools}

\* what the dispatcher's call may throw: nothing, or an Error with this
\* message (a refused connection, or the HTTP status makeRequest reports)
NoFailure == ""
Failures == {NoFailure, "HTTP 503: Service Unavailable"}

\* (userId, scopes) pairs a direct caller of createSession passes
Bindings ==
  { [userId |-> "demo-user", scopes |-> {"read", "write"}],
    [userId |-> "root", scopes |-> {"admin"}],
    [userId |-> "viewer", scopes |-> {"read"}] }

(***************************************************************************)
(* String helpers of JavaScript.                                           *)
(***************************************************************************)
startsWith(s, prefix) ==
  Len(s) >= Len(prefix) /\ SubSeq(s, 1, Len(prefix)) = prefix

\* s.substring(n): the characters from index n (0-based) on
substring(s, n) == SubSeq(s, n + 1, Len(s))

(***************************************************************************)
(* AuthManager (src/src/auth.ts)                                           *)
(***************************************************************************)
\* 30 * 60 * 1000 ms
SessionLifetime == 30 * 60 * 1000

\* "no session": what validateSession returns as null
Null ==
  [id |-> NoId, userId |-> "", createdAt |-> -1, lastActivity |-> -1,
   scopes |-> {}, expiresAt |-> -1]

\* mutant: the length check admits a token of exactly 8 characters
validateApiKey_AtLeast8(apiKey) ==
  IF ~startsWith(apiKey, "bp_sk_") THEN FALSE
  ELSE Len(apiKey) >= 8

validateApiKey(apiKey) ==
  IF ~startsWith(apiKey, "bp_sk_") THEN FALSE
  ELSE Len(apiKey) > 8

\* the record createSession builds at time t under the generated id
SessionData(sessionId, userId, scopes, t) ==
  [id |-> sessionId, userId |-> userId, createdAt |-> t, lastActivity |-> t,
   scopes |-> scopes, expiresAt |-> t + SessionLifetime]

\* Map.set
MapSet(store, key, value) ==
  [k \in DOMAIN store \cup {key} |-> IF k = key THEN value ELSE store[k]]

\* Map.delete
MapDelete(store, key) ==
  [k \in DOMAIN store \ {key} |-> store[k]]

\* the store after createSession; sessionId is what generateSecureSessionId gave
createSession(store, sessionId, userId, scopes, t) ==
  MapSet(store, sessionId, SessionData(sessionId, userId, scopes, t))

\* mutant: Map.clear in place of Map.delete
destroySession_Clear(store, sessionId) ==
  IF sessionId \in DOMAIN store THEN [k \in {} |-> Null] ELSE store

destroySession(store, sessionId) == MapDelete(store, sessionId)

\* what generateSecureSessionId may return: the first 32 hex characters of an
\* HMAC over the time and two Math.random() draws; nothing compares it with
\* the keys of the store
generateSecureSessionId == SessionIds

\* mutant: a session is expired from its expiry instant on
Expired_AtExpiry(session, t) == t >= session.expiresAt

\* the expiry test of validateSession and cleanupExpiredSessions
Expired(session, t) == t > session.expiresAt

\* what validateSession returns
validateSessionResult(store, sessionId, t) ==
  IF sessionId \notin DOMAIN store THEN Null
  ELSE IF Expired(store[sessionId], t) THEN Null
  ELSE [store[sessionId] EXCEPT !.lastActivity = t]

\* mutant: the touch is not written to the store
validateSessionStore_NoTouch(store, sessionId, t) ==
  IF sessionId \notin DOMAIN store THEN store
  ELSE IF Expired(store[sessionId], t) THEN destroySession(store, sessionId)
  ELSE store

\* mutant: an expired record is refused but left in the store
validateSessionStore_NoPurge(store, sessionId, t) ==
  IF sessionId \notin DOMAIN store THEN store
  ELSE IF Expired(store[sessionId], t) THEN store
  ELSE MapSet(store, sessionId, [store[sessionId] EXCEPT !.lastActivity = t])

\* mutant: the touch also renews the lifetime (a sliding expiry)
validateSessionStore_Sliding(store, sessionId, t) ==
  IF sessionId \notin DOMAIN store THEN store
  ELSE IF Expired(store[sessionId], t) THEN destroySession(store, sessionId)
  ELSE MapSet(store, sessionId,
              [store[sessionId] EXCEPT !.lastActivity = t,
                                       !.expiresAt = t + SessionLifetime])

\* the store validateSession leaves
validateSessionStore(store, sessionId, t) ==
  IF sessionId \notin DOMAIN store THEN store
  ELSE IF Expired(store[sessionId], t) THEN destroySession(store, sessionId)
  ELSE MapSet(store, sessionId, [store[sessionId] EXCEPT !.lastActivity = t])

\* mutant: no special case for admin
hasScope_NoAdmin(session, requiredScope) ==
  requiredScope \in session.scopes

hasScope(session, requiredScope) ==
  IF "admin" \in session.scopes THEN TRUE
  ELSE requiredScope \in session.scopes

\* mutant: the sweep goes by idle time, 30 minutes after the last activity
cleanupExpiredSessions_Idle(store, t) ==
  [k \in {i \in DOMAIN store : t <= store[i].lastActivity + SessionLifetime}
     |-> store[k]]

\* mutant: the sweep removes a record from its expiry instant on
cleanupExpiredSessions_AtExpiry(store, t) ==
  [k \in {i \in DOMAIN store : t < store[i].expiresAt} |-> store[k]]

cleanupExpiredSessions(store, t) ==
  [k \in {i \in DOMAIN store : ~Expired(store[i], t)} |-> store[k]]

(***************************************************************************)
(* BlueprintsMCPServer.receiveMessage (src/unnamed/part_000)               *)
(* A response body is described by what JSON.stringify writes of it.       *)
(***************************************************************************)
\* res.end() without an argument
NoBody ==
  [present |-> FALSE, hasId |-> FALSE, id |-> 0, hasResult |-> FALSE,
   hasError |-> FALSE, code |-> 0, text |-> "", data |-> ""]

\* JSON.stringify({ error: text })
ErrorBody(text) ==
  [present |-> TRUE, hasId |-> FALSE, id |-> 0, hasResult |-> FALSE,
   hasError |-> TRUE, code |-> 0, text |-> text, data |-> ""]

\* JSON.stringify({ jsonrpc: '2.0', id: message.id, result: ... }): an id that
\* is undefined is left out
ResultBody(message, text) ==
  [present |-> TRUE, hasId |-> message.hasId,
   id |-> IF message.hasId THEN message.id ELSE 0,
   hasResult |-> TRUE, hasError |-> FALSE, code |-> 0, text |-> text,
   data |-> ""]

\* JSON.stringify({})
EmptyObjectBody ==
  [present |-> TRUE, hasId |-> FALSE, id |-> 0, hasResult |-> FALSE,
   hasError |-> FALSE, code |-> 0, text |-> "", data |-> ""]

\* JSON.stringify({ jsonrpc: '2.0', id: message.id,
\*   error: { code: -32603, message: 'Internal error', data: ... } })
InternalErrorBody(message, data) ==
  [present |-> TRUE, hasId |-> message.hasId,
   id |-> IF message.hasId THEN message.id ELSE 0,
   hasResult |-> FALSE, hasError |-> TRUE, code |-> -32603,
   text |-> "Internal error", data |-> data]

\* if (message.id): undefined and 0 are falsy
Truthy(message) == message.hasId /\ message.id # 0

\* failure: the message of what the try block threw, NoFailure if it ran
\* through; the catch returns the envelope, it does not throw again
receiveMessage(message, failure) ==
  IF failure # NoFailure THEN InternalErrorBody(message, failure)
  ELSE IF Truthy(message)
  THEN ResultBody(message, "Processed " \o message.method)
  ELSE EmptyObjectBody

(***************************************************************************)
(* HTTPTransport (src/unnamed/part_001)                                    *)
(***************************************************************************)
\* getRequiredScope returns null
NoScope == ""

\* keys scopeMap, an object literal, inherits from Object.prototype
ObjectPrototypeKeys ==
  {"toString", "constructor", "valueOf", "hasOwnProperty", "__proto__"}

scopeMap ==
  [m \in { "tools/list_agents", "tools/create_agent", "tools/start_agent",
           "tools/stop_agent", "tools/edit_agent_config", "tools/remove_agent",
           "tools/send_message", "tools/send_terminal", "tools/agent_status",
           "tools/account_register", "tools/pay_upgrade",
           "list_agents", "create_agent", "start_agent", "stop_agent",
           "edit_agent_config", "remove_agent", "send_message",
           "send_terminal", "agent_status", "account_register",
           "pay_upgrade" } |->
     CASE m \in {"tools/list_agents", "list_agents", "tools/agent_status",
                 "agent_status", "tools/account_register", "account_register",
                 "tools/pay_upgrade", "pay_upgrade"} -> "read"
       [] m \in {"tools/create_agent", "create_agent",
                 "tools/edit_agent_config", "edit_agent_config",
                 "tools/remove_agent", "remove_agent",
                 "tools/send_message", "send_message"} -> "write"
       [] m \in {"tools/start_agent", "start_agent",
                 "tools/stop_agent", "stop_agent"} -> "execute"
       [] m \in {"tools/send_terminal", "send_terminal"} -> "terminal"]

\* mutant: only the bare spelling is in the table
getRequiredScope_BareOnly(method) ==
  IF method \in DOMAIN scopeMap /\ ~startsWith(method, "tools/")
  THEN scopeMap[method]
  ELSE IF method \in ObjectPrototypeKeys THEN "function " \o method
  ELSE NoScope

\* mutant: the terminal scope is folded into write
getRequiredScope_TerminalAsWrite(method) ==
  IF method \in DOMAIN scopeMap
  THEN IF scopeMap[method] = "terminal" THEN "write" ELSE scopeMap[method]
  ELSE IF method \in ObjectPrototypeKeys THEN "function " \o method
  ELSE NoScope

\* scopeMap[method] || null; an inherited key yields a function, which is
\* truthy and equals no scope string
getRequiredScope(method) ==
  IF method \in DOMAIN scopeMap THEN scopeMap[method]
  ELSE IF method \in ObjectPrototypeKeys THEN "function " \o method
  ELSE NoScope

\* no exchange in progress
Idle ==
  [phase |-> "idle", verb |-> "", path |-> "", query |-> NoId,
   header |-> NoId, authorization |-> "", body |-> Unread,
   sent |-> FALSE, status |-> 0, sessionHeader |-> NoId, resBody |-> NoBody,
   validated |-> NoId, session |-> Null, created |-> NoId,
   scopeChecked |-> FALSE, requiredScope |-> NoScope, dispatched |-> FALSE,
   failure |-> NoFailure]

\* res.writeHead(status, ...); res.end(body)
Respond(x, status, body) ==
  [x EXCEPT !.phase = "responded", !.sent = TRUE, !.status = status,
            !.resBody = body]

\* mutant: either channel alone, and the query parameter on a mismatch
effectiveSessionId_QueryFirst(sessionIdFromQuery, sessionIdFromHeader) ==
  IF sessionIdFromQuery # NoId THEN sessionIdFromQuery
  ELSE sessionIdFromHeader

\* lines 61-66: the effective session id
effectiveSessionId(sessionIdFromQuery, sessionIdFromHeader) ==
  IF sessionIdFromQuery # NoId /\ sessionIdFromHeader # NoId
  THEN IF sessionIdFromQuery = sessionIdFromHeader
       THEN sessionIdFromQuery ELSE NoId
  ELSE NoId

\* lines 153-180: forward to the server instance, or the fallback
forward(x, sessionId, message, instance, failure) ==
  IF instance = "receiver"
  THEN [Respond(x, 200, receiveMessage(message, failure))
          EXCEPT !.dispatched = TRUE, !.sessionHeader = sessionId,
                 !.failure = failure]
  ELSE IF Truthy(message)
  THEN [Respond(x, 200, ResultBody(message, "Processed " \o message.method))
          EXCEPT !.sessionHeader = sessionId]
  ELSE Respond(x, 200, NoBody)

\* mutant: the message is forwarded without the scope check
active_NoScopeCheck(x, store, sessionId, session, body, instance, failure) ==
  LET read == [x EXCEPT !.body = body] IN
  IF body.kind = "unparsable"
  THEN [sessions |-> store, running |-> TRUE,
        exchange |-> Respond(read, 500, ErrorBody("Unexpected token"))]
  ELSE IF body.method = "notifications/initialized"
  THEN [sessions |-> store, running |-> TRUE,
        exchange |-> Respond(read, 200, NoBody)]
  ELSE [sessions |-> store, running |-> TRUE,
        exchange |-> forward(read, sessionId, body, instance, failure)]

\* lines 132-185: the request in a validated session
active(x, store, sessionId, session, body, instance, failure) ==
  LET read == [x EXCEPT !.body = body] IN
  IF body.kind = "unparsable"
  THEN \* JSON.parse throws inside the try: the catch answers 500
       [sessions |-> store, running |-> TRUE,
        exchange |-> Respond(read, 500, ErrorBody("Unexpected token"))]
  ELSE IF body.method = "notifications/initialized"
  THEN [sessions |-> store, running |-> TRUE,
        exchange |-> Respond(read, 200, NoBody)]
  ELSE LET requiredScope == getRequiredScope(body.method)
           checked == [read EXCEPT !.scopeChecked = TRUE,
                                   !.requiredScope = requiredScope]
       IN IF requiredScope # NoScope /\ ~hasScope(session, requiredScope)
          THEN [sessions |-> store, running |-> TRUE,
                exchange |-> Respond(checked, 403,
                  ErrorBody("Insufficient permissions. Required scope: "
                            \o requiredScope))]
          ELSE [sessions |-> store, running |-> TRUE,
                exchange |-> forward(checked, sessionId, body, instance,
                                     failure)]

\* mutant: the user of the session is taken from the token
initialize_UserFromToken(x, store, message, newId, t) ==
  [sessions |-> createSession(store, newId, substring(x.authorization, 7),
                              {"read", "write"}, t),
   running |-> TRUE,
   exchange |-> [Respond(x, 200, ResultBody(message, "serverInfo"))
                   EXCEPT !.created = newId, !.sessionHeader = newId]]

\* lines 91-115: the handshake, newId being what generateSecureSessionId gave
initialize(x, store, message, newId, t) ==
  [sessions |-> createSession(store, newId, "demo-user", {"read", "write"}, t),
   running |-> TRUE,
   exchange |-> [Respond(x, 200, ResultBody(message, "serverInfo"))
                   EXCEPT !.created = newId, !.sessionHeader = newId]]

\* mutant: the session is created before the method is looked at
handshake_CreateFirst(x, store, body, t) ==
  LET read == [x EXCEPT !.body = body] IN
  IF body.kind = "unparsable"
  THEN {[sessions |-> store, running |-> FALSE,
         exchange |-> [read EXCEPT !.phase = "responded"]]}
  ELSE IF body.method = "initialize"
  THEN {initialize(read, store, body, newId, t) :
          newId \in generateSecureSessionId}
  ELSE {[sessions |-> createSession(store, newId, "demo-user",
                                    {"read", "write"}, t),
         running |-> TRUE,
         exchange |-> Respond(read, 401,
                              ErrorBody("Session required for this request"))] :
          newId \in generateSecureSessionId}

\* lines 85-122: no effective session id; the outcomes, one per generated id
handshake(x, store, body, t) ==
  LET read == [x EXCEPT !.body = body] IN
  IF body.kind = "unparsable"
  THEN \* JSON.parse throws outside any try: handleRequest's promise rejects,
       \* nothing is written and node (target node18) ends the process
       {[sessions |-> store, running |-> FALSE,
         exchange |-> [read EXCEPT !.phase = "responded"]]}
  ELSE IF body.method = "initialize"
  THEN {initialize(read, store, body, newId, t) :
          newId \in generateSecureSessionId}
  ELSE {[sessions |-> store, running |-> TRUE,
         exchange |-> Respond(read, 401,
                              ErrorBody("Session required for this request"))]}

\* lines 46-186: the outcomes of one request
handleRequest(store, t, instance, verb, path, q, h, auth, body, failure) ==
  LET routed == [Idle EXCEPT !.verb = verb, !.path = path] IN
  IF verb # "POST" \/ path # "/mcp/messages"
  THEN {[sessions |-> store, running |-> TRUE,
         exchange |-> Respond(routed, 404, ErrorBody("Not found"))]}
  ELSE
  LET sessionId == effectiveSessionId(q, h)
      x == [routed EXCEPT !.query = q, !.header = h, !.authorization = auth]
  IN
  IF auth = "" \/ ~startsWith(auth, "Bearer ")
  THEN {[sessions |-> store, running |-> TRUE,
         exchange |-> Respond(x, 401,
                        ErrorBody("Missing or invalid authorization header"))]}
  ELSE IF ~validateApiKey(substring(auth, 7))
  THEN {[sessions |-> store, running |-> TRUE,
         exchange |-> Respond(x, 401, ErrorBody("Invalid API key format"))]}
  ELSE IF sessionId = NoId
  THEN handshake(x, store, body, t)
  ELSE
  LET session == validateSessionResult(store, sessionId, t)
      after == validateSessionStore(store, sessionId, t)
      looked == [x EXCEPT !.validated = sessionId, !.session = session]
  IN
  IF session = Null
  THEN {[sessions |-> after, running |-> TRUE,
         exchange |-> Respond(looked, 401,
                              ErrorBody("Invalid or expired session"))]}
  ELSE {active(looked, after, sessionId, session, body, instance, failure)}

\* lines 46-130 up to the first await (readRequestBody, line 88 or 134):
\* the part of handleRequest that runs before any other callback can
accept(store, t, verb, path, q, h, auth) ==
  LET routed == [Idle EXCEPT !.verb = verb, !.path = path] IN
  IF verb # "POST" \/ path # "/mcp/messages"
  THEN [sessions |-> store,
        exchange |-> Respond(routed, 404, ErrorBody("Not found"))]
  ELSE
  LET sessionId == effectiveSessionId(q, h)
      x == [routed EXCEPT !.query = q, !.header = h, !.authorization = auth]
  IN
  IF auth = "" \/ ~startsWith(auth, "Bearer ")
  THEN [sessions |-> store,
        exchange |-> Respond(x, 401,
                       ErrorBody("Missing or invalid authorization header"))]
  ELSE IF ~validateApiKey(substring(auth, 7))
  THEN [sessions |-> store,
        exchange |-> Respond(x, 401, ErrorBody("Invalid API key format"))]
  ELSE IF sessionId = NoId
  THEN [sessions |-> store, exchange |-> [x EXCEPT !.phase = "awaiting"]]
  ELSE
  LET session == validateSessionResult(store, sessionId, t)
      after == validateSessionStore(store, sessionId, t)
      looked == [x EXCEPT !.validated = sessionId, !.session = session]
  IN
  IF session = Null
  THEN [sessions |-> after,
        exchange |-> Respond(looked, 401,
                             ErrorBody("Invalid or expired session"))]
  ELSE [sessions |-> after, exchange |-> [looked EXCEPT !.phase = "awaiting"]]

\* mutant: the continuation stores the session it holds once more
resume_WriteBack(x, store, t, instance, body, failure) ==
  IF x.validated = NoId THEN handshake(x, store, body, t)
  ELSE {active(x, MapSet(store, x.validated, x.session), x.validated,
               x.session, body, instance, failure)}

\* lines 88-122 and 134-185: handleRequest from the point where the body has
\* arrived, x holding the locals (sessionId, session) of the first part
resume(x, store, t, instance, body, failure) ==
  IF x.validated = NoId THEN handshake(x, store, body, t)
  ELSE {active(x, store, x.validated, x.session, body, instance, failure)}

(***************************************************************************)
(* The server: requests arrive one at a time, the clock advances.          *)
(***************************************************************************)
NoCall == [op |-> "none", sessionId |-> NoId, result |-> Null]

\* no fetch in flight
NoFetch == [state |-> "none", tool |-> "", outcome |-> ""]

quiet == running /\ exchange.phase = "idle" /\ call.op = "none"

\* between callbacks: no request is being served, or one is waiting for its
\* body at an await
between ==
  running /\ exchange.phase \in {"idle", "awaiting"} /\ call.op = "none"

Init ==
  /\ sessions = [k \in {} |-> Null]
  /\ now = 0
  /\ serverInstance \in {"receiver", "none"}
  /\ running = TRUE
  /\ exchange = Idle
  /\ call = NoCall
  /\ backend = NoFetch
  /\ unswept = sessions

\* one HTTP request is served
Request ==
  /\ quiet
  /\ \E verb \in Verbs, path \in Paths :
       \* of a request that is not routed, nothing else is read
       LET routed == verb = "POST" /\ path = "/mcp/messages" IN
       \E q \in IF routed THEN SuppliedIds ELSE {NoId},
          h \in IF routed THEN SuppliedIds ELSE {NoId},
          auth \in IF routed THEN AuthHeaders ELSE {""},
          body \in IF routed THEN Bodies ELSE {Unparsable},
          failure \in IF routed THEN Failures ELSE {NoFailure} :
         \E o \in handleRequest(sessions, now, serverInstance,
                                verb, path, q, h, auth, body, failure) :
           /\ sessions' = o.sessions
           /\ running' = o.running
           /\ exchange' = o.exchange
  /\ UNCHANGED <<now, serverInstance, call, backend, unswept>>

\* the response reaches the client and the exchange is over
Deliver ==
  /\ running
  /\ exchange.phase = "responded"
  /\ exchange' = Idle
  /\ UNCHANGED <<sessions, now, serverInstance, running, call, backend,
                 unswept>>

TickSteps == {1, SessionLifetime}

\* the clock advances by d ms
Tick(d) ==
  /\ between
  /\ d = 1 => now % SessionLifetime < MaxDrift
  /\ d = SessionLifetime => now \div SessionLifetime < MaxEpoch
  /\ now' = now + d
  /\ UNCHANGED <<sessions, serverInstance, running, exchange, call, backend,
                 unswept>>

Advance == \E d \in TickSteps : Tick(d)

Next == Request \/ Deliver \/ Advance

Spec == Init /\ [][Next]_vars

(***************************************************************************)
(* AuthManager used directly: besides the requests, any caller of its      *)
(* public methods (createSession with any user and scopes, validateSession,*)
(* destroySession, cleanupExpiredSessions).                                *)
(***************************************************************************)
CreateSession ==
  /\ between
  /\ \E b \in Bindings, newId \in generateSecureSessionId :
       /\ sessions' = createSession(sessions, newId, b.userId, b.scopes, now)
       /\ call' = [op |-> "createSession", sessionId |-> newId,
                   result |-> SessionData(newId, b.userId, b.scopes, now)]
  /\ UNCHANGED <<now, serverInstance, running, exchange, backend, unswept>>

ValidateSession ==
  /\ between
  /\ \E sessionId \in SessionIds :
       /\ sessions' = validateSessionStore(sessions, sessionId, now)
       /\ call' = [op |-> "validateSession", sessionId |-> sessionId,
                   result |-> validateSessionResult(sessions, sessionId, now)]
  /\ UNCHANGED <<now, serverInstance, running, exchange, backend, unswept>>

DestroySession ==
  /\ between
  /\ \E sessionId \in SessionIds :
       /\ sessions' = destroySession(sessions, sessionId)
       /\ call' = [op |-> "destroySession", sessionId |-> sessionId,
                   result |-> Null]
  /\ UNCHANGED <<now, serverInstance, running, exchange, backend, unswept>>

CleanupExpiredSessions ==
  /\ between
  /\ sessions' = cleanupExpiredSessions(sessions, now)
  /\ call' = [op |-> "cleanupExpiredSessions", sessionId |-> NoId,
              result |-> Null]
  /\ UNCHANGED <<now, serverInstance, running, exchange, backend, unswept>>

\* the call returns to its caller
Return ==
  /\ running
  /\ call.op # "none"
  /\ call' = NoCall
  /\ UNCHANGED <<sessions, now, serverInstance, running, exchange, backend,
                 unswept>>

NextApi ==
  \/ Next
  \/ CreateSession \/ ValidateSession \/ DestroySession
  \/ CleanupExpiredSessions \/ Return

SpecApi == Init /\ [][NextApi]_vars

\* AuthManager alone, driven through its public methods
NextStore ==
  \/ Advance
  \/ CreateSession \/ ValidateSession \/ DestroySession
  \/ CleanupExpiredSessions \/ Return

SpecStore == Init /\ [][NextStore]_vars

(***************************************************************************)
(* Requests interleaved at their awaits: handleRequest runs to its first   *)
(* await, other callbacks run, and it goes on when the body has arrived.   *)
(* ValidateSession stands for the first part of another request on the     *)
(* same session id.                                                        *)
(***************************************************************************)
Accept ==
  /\ quiet
  /\ \E verb \in Verbs, path \in Paths :
       LET routed == verb = "POST" /\ path = "/mcp/messages" IN
       \E q \in IF routed THEN SuppliedIds ELSE {NoId},
          h \in IF routed THEN SuppliedIds ELSE {NoId},
          auth \in IF routed THEN AuthHeaders ELSE {""} :
         LET o == accept(sessions, now, verb, path, q, h, auth) IN
           /\ sessions' = o.sessions
           /\ exchange' = o.exchange
  /\ UNCHANGED <<now, serverInstance, running, call, backend, unswept>>

Continue ==
  /\ running /\ exchange.phase = "awaiting" /\ call.op = "none"
  /\ \E body \in Bodies, failure \in Failures :
       \E o \in resume(exchange, sessions, now, serverInstance, body, failure) :
         /\ sessions' = o.sessions
         /\ running' = o.running
         /\ exchange' = o.exchange
  /\ UNCHANGED <<now, serverInstance, call, backend, unswept>>

NextConc ==
  \/ Accept \/ Continue \/ Deliver \/ Advance
  \/ ValidateSession \/ DestroySession \/ CleanupExpiredSessions \/ Return

SpecConc == Init /\ [][NextConc]_vars

\* getRequiredScope asked directly about one method name
GetRequiredScope ==
  /\ quiet
  /\ \E method \in MethodNames :
       call' = [op |-> "getRequiredScope", sessionId |-> NoId,
                result |-> Null, method |-> method,
                scope |-> getRequiredScope(method)]
  /\ UNCHANGED <<sessions, now, serverInstance, running, exchange, backend,
                 unswept>>

\* the scope table alone
NextScope == Advance \/ GetRequiredScope \/ Return

SpecScope == Init /\ [][NextScope]_vars

(***************************************************************************)
(* AuthManager with the sweep set apart: createSession, validateSession    *)
(* and destroySession act on the store and, with the same arguments at the *)
(* same time, on the history store no sweep ever touches.                  *)
(***************************************************************************)
CreateSessionReplayed ==
  /\ between
  /\ \E b \in Bindings, newId \in generateSecureSessionId :
       /\ sessions' = createSession(sessions, newId, b.userId, b.scopes, now)
       /\ unswept' = createSession(unswept, newId, b.userId, b.scopes, now)
       /\ call' = [op |-> "createSession", sessionId |-> newId,
                   result |-> SessionData(newId, b.userId, b.scopes, now)]
  /\ UNCHANGED <<now, serverInstance, running, exchange, backend>>

ValidateSessionReplayed ==
  /\ between
  /\ \E sessionId \in SessionIds :
       /\ sessions' = validateSessionStore(sessions, sessionId, now)
       /\ unswept' = validateSessionStore(unswept, sessionId, now)
       /\ call' = [op |-> "validateSession", sessionId |-> sessionId,
                   result |-> validateSessionResult(sessions, sessionId, now)]
  /\ UNCHANGED <<now, serverInstance, running, exchange, backend>>

DestroySessionReplayed ==
  /\ between
  /\ \E sessionId \in SessionIds :
       /\ sessions' = destroySession(sessions, sessionId)
       /\ unswept' = destroySession(unswept, sessionId)
       /\ call' = [op |-> "destroySession", sessionId |-> sessionId,
                   result |-> Null]
  /\ UNCHANGED <<now, serverInstance, running, exchange, backend>>

NextSweep ==
  \/ Advance
  \/ CreateSessionReplayed \/ ValidateSessionReplayed
  \/ DestroySessionReplayed
  \/ CleanupExpiredSessions \/ Return

SpecSweep == Init /\ [][NextSweep]_vars

(***************************************************************************)
(* BlueprintsAPIClient.makeRequest (src/src/blueprints-api.ts): the call   *)
(* a tool handler makes to the backend.                                    *)
(***************************************************************************)
\* a tool handler calls makeRequest, which awaits fetch(url, ...): no
\* timeout and no abort signal are passed
MakeRequest ==
  /\ running /\ backend.state = "none"
  /\ \E tool \in Tools :
       backend' = [state |-> "pending", tool |-> tool, outcome |-> ""]
  /\ UNCHANGED <<sessions, now, serverInstance, running, exchange, call,
                 unswept>>

\* the backend answers: response.ok and the JSON is returned, or
\* Error('HTTP <status>: <statusText>') is thrown
Settle ==
  /\ running /\ backend.state = "pending"
  /\ \E outcome \in {"json"} \cup (Failures \ {NoFailure}) :
       backend' = [backend EXCEPT !.state = "settled", !.outcome = outcome]
  /\ UNCHANGED <<sessions, now, serverInstance, running, exchange, call,
                 unswept>>

\* the await resumes and makeRequest returns or throws to the tool handler
Resume ==
  /\ running /\ backend.state = "settled"
  /\ backend' = NoFetch
  /\ UNCHANGED <<sessions, now, serverInstance, running, exchange, call,
                 unswept>>

NextBackend == Advance \/ MakeRequest \/ Settle \/ Resume

\* node's event loop resumes an await whose promise has settled; nothing
\* makes the backend answer
SpecBackend == Init /\ [][NextBackend]_vars /\ WF_vars(Resume)

(***************************************************************************)
(* Vocabulary of the properties, stated on the wire and on the store, not  *)
(* through the operators above.                                            *)
(***************************************************************************)
\* a step that serves one request
Served == exchange.phase = "idle" /\ exchange'.phase = "responded"

\* the exchange is a POST to /mcp/messages
Routed(x) == x.verb = "POST" /\ x.path = "/mcp/messages"

\* "Bearer " followed by a token that starts with bp_sk_ and is longer than 8
FormatValid(authorization) ==
  /\ Len(authorization) > 7 + 8
  /\ SubSeq(authorization, 1, 13) = "Bearer bp_sk_"

\* the id both channels agree on, if they do
Effective(x) ==
  IF x.query = x.header THEN x.query ELSE NoId

\* the record is in the store and not past its expiry at time t
Live(store, sessionId, t) ==
  sessionId \in DOMAIN store /\ t <= store[sessionId].expiresAt

(***************************************************************************)
(* C1: a POST to /mcp/messages whose bearer token is missing, is not of    *)
(* the form 'Bearer <token>' or fails the format check is answered 401,    *)
(* whatever the method and the session ids, and the store is unchanged:    *)
(* nothing is created, looked up, touched or removed.                      *)
(***************************************************************************)
C1_BadTokenRejected ==
  [][(Served /\ Routed(exchange') /\ ~FormatValid(exchange'.authorization))
       => /\ exchange'.sent /\ exchange'.status = 401
          /\ sessions' = sessions
          /\ exchange'.validated = NoId /\ exchange'.created = NoId
          /\ ~exchange'.dispatched]_vars

\* a bad token was sent with both channels naming a stored, expired session
C1_Witness ==
  /\ exchange.phase = "responded" /\ Routed(exchange)
  /\ exchange.authorization = "Bearer bp_sk_ab"
  /\ exchange.query # NoId /\ exchange.query = exchange.header
  /\ exchange.query \in DOMAIN sessions
  /\ now > sessions[exchange.query].expiresAt
  /\ exchange.status = 401

(***************************************************************************)
(* C2: a request in a validated session is forwarded to the dispatcher iff *)
(* the session's scopes contain 'admin', or contain the scope              *)
(* getRequiredScope returns for the method, or getRequiredScope returns    *)
(* none; hasScope is true of every scope when 'admin' is present; in every *)
(* other case the answer is 403 naming the required scope and the          *)
(* dispatcher is not called.                                               *)
(***************************************************************************)
ScopeNames == {"read", "write", "execute", "terminal", "admin"}

\* the scope policy as the claim words it
C2_Allowed(session, method) ==
  \/ "admin" \in session.scopes
  \/ getRequiredScope(method) = NoScope
  \/ getRequiredScope(method) \in session.scopes

\* the request went through to lines 153-161: receiveMessage was called if
\* the server instance has it
C2_Forwarded(x) ==
  /\ x.status = 200 /\ x.scopeChecked
  /\ serverInstance = "receiver" => x.dispatched

\* the 403 of line 148-149
C2_Denied(x) ==
  /\ x.status = 403 /\ ~x.dispatched
  /\ x.resBody.text = "Insufficient permissions. Required scope: "
                        \o getRequiredScope(x.body.method)

C2_AdminHasAll(session) ==
  "admin" \in session.scopes =>
    \A scope \in ScopeNames \cup {"function toString"} : hasScope(session, scope)

\* C2 as written: of every request in a validated session
C2_Original ==
  [][(Served /\ exchange'.session # Null)
       => /\ IF C2_Allowed(exchange'.session, exchange'.body.method)
             THEN C2_Forwarded(exchange')
             ELSE C2_Denied(exchange')
          /\ C2_AdminHasAll(exchange'.session)]_vars

\* C2 amended: of every request in a validated session whose body parses to a
\* message other than the notifications/initialized acknowledgement
C2_ScopeGate ==
  [][(/\ Served /\ exchange'.session # Null
      /\ exchange'.body.kind = "message"
      /\ exchange'.body.method # "notifications/initialized")
       => /\ IF C2_Allowed(exchange'.session, exchange'.body.method)
             THEN C2_Forwarded(exchange')
             ELSE C2_Denied(exchange')
          /\ C2_AdminHasAll(exchange'.session)]_vars

\* an admin session was let through to a method whose scope it does not list
C2_Witness ==
  /\ exchange.phase = "responded" /\ exchange.dispatched
  /\ exchange.session.scopes = {"admin"}
  /\ exchange.body.method = "send_terminal"

(***************************************************************************)
(* C3: a POST with a format-valid token, no effective session id and       *)
(* method 'initialize' returns 200 with a result containing serverInfo,    *)
(* and its mcp-session-id header carries an id that was not in the store   *)
(* before the request and is a live record after it: an immediate          *)
(* validateSession of that id returns the record.                          *)
(***************************************************************************)
\* a request that takes the handshake
C3_Handshake ==
  /\ Served /\ Routed(exchange') /\ FormatValid(exchange'.authorization)
  /\ Effective(exchange') = NoId
  /\ exchange'.body.kind = "message"
  /\ exchange'.body.method = "initialize"

\* all of the claim but the freshness of the id
C3_Answer ==
  /\ exchange'.status = 200
  /\ exchange'.resBody.hasResult /\ exchange'.resBody.text = "serverInfo"
  /\ exchange'.sessionHeader # NoId
  /\ Live(sessions', exchange'.sessionHeader, now)
  /\ validateSessionResult(sessions', exchange'.sessionHeader, now)
       = sessions'[exchange'.sessionHeader]

\* C3 as written: the handshake answers 200 with serverInfo and a session
\* id that was not in the store before, live in the store afterwards
C3_FreshSession ==
  [][C3_Handshake =>
       /\ C3_Answer
       /\ exchange'.sessionHeader \notin DOMAIN sessions]_vars

\* what holds of the handshake: everything but the freshness
C3_HandshakeAnswer == [][C3_Handshake => C3_Answer]_vars

(***************************************************************************)
(* C4: a request with a format-valid token whose session id is not in the  *)
(* store, or is in the store but expired, is answered 401 and reaches      *)
(* neither the scope check nor the dispatcher; an expired record is        *)
(* removed during that request, so a validateSession of that id at any     *)
(* later time returns not-found; the id comes back into the store only if  *)
(* a later handshake generates it again.                                   *)
(***************************************************************************)
\* the clock values of the model from t on
Times == {e * SessionLifetime + d : e \in 0 .. MaxEpoch, d \in 0 .. MaxDrift}
TimesFrom(t) == {u \in Times : u >= t}

\* C4: a request naming an id that is unknown or expired is answered 401
\* 'Invalid or expired session'; afterwards the id is not in the store, and
\* it re-enters only through a handshake that generates it
C4_InvalidSessionRejected ==
  [][/\ (/\ Served /\ Routed(exchange')
         /\ FormatValid(exchange'.authorization)
         /\ Effective(exchange') # NoId
         /\ ~Live(sessions, Effective(exchange'), now))
        => /\ exchange'.status = 401
           /\ ~exchange'.scopeChecked /\ ~exchange'.dispatched
           /\ exchange'.body = Unread
           /\ Effective(exchange') \notin DOMAIN sessions'
           /\ \A t \in TimesFrom(now) :
                validateSessionResult(sessions', Effective(exchange'), t) = Null
           /\ \A k \in DOMAIN sessions \ {Effective(exchange')} :
                k \in DOMAIN sessions' /\ sessions'[k] = sessions[k]
     /\ \A k \in SessionIds :
          (k \notin DOMAIN sessions /\ k \in DOMAIN sessions')
            => exchange'.created = k]_vars

\* an expired session was presented, refused and purged
C4_Witness ==
  /\ exchange.phase = "responded" /\ exchange.status = 401
  /\ exchange.validated # NoId
  /\ exchange.validated \notin DOMAIN sessions
  /\ exchange.resBody.text = "Invalid or expired session"
  /\ now = SessionLifetime + 1

(***************************************************************************)
(* C5: a session created by a handshake is valid at every instant before   *)
(* createdAt + 30 minutes and becomes invalid exactly at createdAt + 30    *)
(* minutes: a validateSession of its id at that instant returns not-found  *)
(* and purges the record, and no validateSession before it does.           *)
(* Amended: the session is still valid at createdAt + 30 minutes itself    *)
(* and invalid from the first instant after it.                            *)
(***************************************************************************)
ThirtyMinutes == 30 * 60 * 1000

\* a request whose effective id is looked up while its record is stored
C5_Lookup ==
  /\ Served /\ exchange'.validated # NoId
  /\ exchange'.validated \in DOMAIN sessions

C5_Found ==
  /\ exchange'.session # Null
  /\ exchange'.session.id = exchange'.validated
  /\ exchange'.validated \in DOMAIN sessions'
  /\ exchange'.status # 401

C5_Purged ==
  /\ exchange'.session = Null
  /\ exchange'.validated \notin DOMAIN sessions'
  /\ exchange'.status = 401

\* C5 as written: the session is invalid from createdAt + 30 min on
C5_Original ==
  [][C5_Lookup =>
       IF now < sessions[exchange'.validated].createdAt + ThirtyMinutes
       THEN C5_Found ELSE C5_Purged]_vars

\* C5 amended: the session is valid up to and including createdAt + 30 min
\* and invalid (purged on lookup) after it
C5_ValidThroughExpiry ==
  [][C5_Lookup =>
       IF now <= sessions[exchange'.validated].createdAt + ThirtyMinutes
       THEN C5_Found ELSE C5_Purged]_vars

\* a session was used, and found valid, exactly 30 minutes after its creation
C5_Witness ==
  /\ exchange.phase = "responded" /\ exchange.session # Null
  /\ now = exchange.session.createdAt + ThirtyMinutes
  /\ exchange.validated \in DOMAIN sessions

(***************************************************************************)
(* C6: validateSession(id) returns the record iff id is in the store and   *)
(* now <= expiresAt; on that success it sets lastActivity to now and       *)
(* changes no other field and no other record; when id is absent it        *)
(* returns not-found and changes nothing; when id is present with          *)
(* now > expiresAt it deletes exactly that record and returns not-found.   *)
(***************************************************************************)
C6_ValidateSession ==
  [][(call.op = "none" /\ call'.op = "validateSession") =>
       LET id == call'.sessionId
           stored == id \in DOMAIN sessions
           found == stored /\ now <= sessions[id].expiresAt
       IN /\ (call'.result # Null) <=> found
          /\ found =>
               /\ call'.result = [sessions[id] EXCEPT !.lastActivity = now]
               /\ sessions' = [sessions EXCEPT ![id].lastActivity = now]
          /\ ~stored => sessions' = sessions
          /\ (stored /\ ~found) =>
               /\ DOMAIN sessions' = DOMAIN sessions \ {id}
               /\ \A k \in DOMAIN sessions' : sessions'[k] = sessions[k]]_vars

\* a validateSession that moved lastActivity while another record was stored
C6_Witness ==
  /\ call.op = "validateSession" /\ call.result # Null
  /\ call.result.lastActivity > call.result.createdAt
  /\ sessions[call.sessionId] = call.result
  /\ Cardinality(DOMAIN sessions) = 2

(***************************************************************************)
(* C7: when the sessionId query parameter and the mcp-session-id header    *)
(* are both supplied and differ, the request is handled exactly as one     *)
(* with no session id: 'initialize' succeeds and creates a new session,    *)
(* any other method is rejected 401 session-required, and neither          *)
(* supplied id is looked up, touched or purged.                            *)
(***************************************************************************)
C7_Mismatch ==
  /\ Served /\ Routed(exchange') /\ FormatValid(exchange'.authorization)
  /\ exchange'.query # NoId /\ exchange'.header # NoId
  /\ exchange'.query # exchange'.header

\* the store after the handshake's one createSession under id
C7_Created(id) ==
  [k \in DOMAIN sessions \cup {id} |->
     IF k = id
     THEN [id |-> id, userId |-> "demo-user", createdAt |-> now,
           lastActivity |-> now, scopes |-> {"read", "write"},
           expiresAt |-> now + ThirtyMinutes]
     ELSE sessions[k]]

\* C7: a request whose query id and header id differ is handled as a
\* request with no session id: no lookup, and the same outcomes
C7_MismatchIsNoSession ==
  [][C7_Mismatch =>
       \* validateSession is not called: no lookup, no touch, no purge
       /\ exchange'.validated = NoId /\ exchange'.session = Null
       /\ (exchange'.body.kind = "message"
             /\ exchange'.body.method = "initialize") =>
            /\ exchange'.status = 200 /\ exchange'.created # NoId
            /\ exchange'.sessionHeader = exchange'.created
            /\ sessions' = C7_Created(exchange'.created)
       /\ (exchange'.body.kind = "message"
             /\ exchange'.body.method # "initialize") =>
            /\ exchange'.status = 401
            /\ exchange'.resBody.text = "Session required for this request"
            /\ sessions' = sessions
       \* the outcome is one of the same request sent without any session id
       /\ \E o \in handleRequest(sessions, now, serverInstance,
                                 exchange'.verb, exchange'.path, NoId, NoId,
                                 exchange'.authorization, exchange'.body,
                                 exchange'.failure) :
            /\ o.sessions = sessions' /\ o.running = running'
            /\ o.exchange = [exchange' EXCEPT !.query = NoId,
                                              !.header = NoId]]_vars

\* a handshake went through with a live id in the query and another id in
\* the header, and the live record is as it was
C7_Witness ==
  /\ exchange.phase = "responded" /\ Routed(exchange)
  /\ exchange.header = "0000" /\ exchange.query \in SessionIds
  /\ exchange.created \in SessionIds \ {exchange.query}
  /\ exchange.query \in DOMAIN sessions
  /\ sessions[exchange.query].lastActivity < now
  /\ exchange.status = 200

(***************************************************************************)
(* C8: a request with a format-valid token that supplies a live session id *)
(* through the mcp-session-id header alone (no sessionId query parameter)  *)
(* counts as supplying a session id: it is validated against the store and *)
(* goes on to the Active state and the scope check; it is not rejected as  *)
(* session-required and does not trigger a new handshake.                  *)
(***************************************************************************)
C8_HeaderAloneIsSession ==
  [][(/\ Served /\ Routed(exchange')
      /\ FormatValid(exchange'.authorization)
      /\ exchange'.query = NoId /\ exchange'.header # NoId
      /\ Live(sessions, exchange'.header, now)
      /\ exchange'.body.kind = "message")
       => /\ exchange'.validated = exchange'.header
          /\ exchange'.session # Null
          /\ exchange'.created = NoId
          /\ exchange'.resBody.text # "Session required for this request"]_vars

(***************************************************************************)
(* C9: over every path of handleRequest, a request whose message carries   *)
(* no id never produces a response body, and every request whose message   *)
(* carries an id (any value, 0 included) produces a response with exactly  *)
(* one of result or error.                                                 *)
(***************************************************************************)
C9_NotificationSemantics ==
  (exchange.phase = "responded" /\ exchange.body.kind = "message") =>
    IF exchange.body.hasId
    THEN /\ exchange.sent /\ exchange.resBody.present
         /\ exchange.resBody.hasResult # exchange.resBody.hasError
    ELSE ~exchange.resBody.present

(***************************************************************************)
(* C10: after a handshake with the default binding (scopes read and        *)
(* write), a request reusing the returned session id with method           *)
(* list_agents returns 200 with the dispatcher's result forwarded verbatim *)
(* as the response body, and a request in the same session with method     *)
(* send_terminal returns 403 naming 'terminal' without the dispatcher      *)
(* being called.                                                           *)
(***************************************************************************)
\* a request that reuses a live session of the default binding
C10_Reuse ==
  /\ Served /\ Routed(exchange') /\ FormatValid(exchange'.authorization)
  /\ Effective(exchange') # NoId
  /\ Live(sessions, Effective(exchange'), now)
  /\ sessions[Effective(exchange')].scopes = {"read", "write"}
  /\ exchange'.body.kind = "message"

\* C10: in a handshake-created session list_agents is answered 200 with the
\* dispatcher's result and send_terminal 403 naming scope 'terminal'
C10_DefaultBinding ==
  [][C10_Reuse =>
       /\ exchange'.body.method = "list_agents" =>
            /\ exchange'.status = 200
            /\ serverInstance = "receiver" =>
                 /\ exchange'.dispatched
                 /\ exchange'.sessionHeader = Effective(exchange')
                 /\ exchange'.resBody =
                      receiveMessage(exchange'.body, exchange'.failure)
       /\ exchange'.body.method = "send_terminal" =>
            /\ exchange'.status = 403 /\ ~exchange'.dispatched
            /\ exchange'.resBody.hasError
            /\ exchange'.resBody.text =
                 "Insufficient permissions. Required scope: terminal"]_vars

\* list_agents was dispatched in a session the handshake created
C10_Witness ==
  /\ exchange.phase = "responded" /\ exchange.dispatched
  /\ exchange.body.method = "list_agents" /\ exchange.body.id = 1
  /\ exchange.session.scopes = {"read", "write"}
  /\ exchange.session.userId = "demo-user"
  /\ exchange.resBody.hasResult /\ exchange.resBody.id = 1
  /\ exchange.status = 200

(***************************************************************************)
(* C11: when the dispatcher fails on a request that carries an id, the     *)
(* HTTP response is 500 and its body is an error envelope that echoes the  *)
(* request id unchanged, with the fixed negative internal-error code, a    *)
(* generic message, and the failure's message as diagnostic data.          *)
(***************************************************************************)
\* the dispatcher was called for a message with an id, and failed
C11_Failed ==
  /\ Served /\ exchange'.dispatched
  /\ exchange'.failure # NoFailure
  /\ exchange'.body.hasId

\* the error envelope of the claim
C11_Envelope ==
  /\ exchange'.resBody.present
  /\ exchange'.resBody.hasError /\ ~exchange'.resBody.hasResult
  /\ exchange'.resBody.hasId /\ exchange'.resBody.id = exchange'.body.id
  /\ exchange'.resBody.code < 0
  /\ exchange'.resBody.text = "Internal error"
  /\ exchange'.resBody.data = exchange'.failure

\* C11 as written: a dispatcher failure on a request with an id is answered
\* 500 with the error envelope
C11_DispatchFailure ==
  [][C11_Failed => (exchange'.status = 500 /\ C11_Envelope)]_vars

\* what holds of a dispatcher failure: the envelope, under status 200
C11_EnvelopeUnder200 ==
  [][C11_Failed => (exchange'.status = 200 /\ C11_Envelope)]_vars

(***************************************************************************)
(* C12: a request with a format-valid token and an unparsable JSON body    *)
(* ends with an HTTP 500 response on both paths, with no effective session *)
(* id (handshake branch) and with a valid session, and the server goes on  *)
(* serving later requests: no failure path leaves a request without a      *)
(* response or stops the process.                                          *)
(***************************************************************************)
\* a request whose body was read and did not parse
C12_Unparsable ==
  /\ Served /\ Routed(exchange') /\ FormatValid(exchange'.authorization)
  /\ exchange'.body.kind = "unparsable"

\* C12 as written: an unparsable body is answered 500 on both paths and the
\* process keeps running
C12_UnparsableIs500 ==
  [][C12_Unparsable =>
       /\ exchange'.sent /\ exchange'.status = 500
       /\ running']_vars

\* what holds: the 500 of the path with a valid session
C12_UnparsableInSession ==
  [][(C12_Unparsable /\ Effective(exchange') # NoId) =>
       /\ exchange'.sent /\ exchange'.status = 500
       /\ exchange'.resBody.hasError
       /\ running' /\ sessions' = [sessions EXCEPT
             ![Effective(exchange')].lastActivity = now]]_vars

(***************************************************************************)
(* C13: for every method name outside the scope mapping (for example       *)
(* 'tools/call', or 'initialize' sent on an existing session),             *)
(* getRequiredScope returns none and a request in any valid session,       *)
(* whatever its scope set, is never answered 403.                          *)
(***************************************************************************)
\* the names the mapping lists: the eleven tools, bare and namespaced
C13_Mapped ==
  { "list_agents", "create_agent", "start_agent", "stop_agent",
    "edit_agent_config", "remove_agent", "send_message", "send_terminal",
    "agent_status", "account_register", "pay_upgrade",
    "tools/list_agents", "tools/create_agent", "tools/start_agent",
    "tools/stop_agent", "tools/edit_agent_config", "tools/remove_agent",
    "tools/send_message", "tools/send_terminal", "tools/agent_status",
    "tools/account_register", "tools/pay_upgrade" }

\* a request in a valid session whose method reaches the scope check
C13_Checked ==
  /\ Served /\ exchange'.session # Null
  /\ exchange'.body.kind = "message"
  /\ exchange'.body.method # "notifications/initialized"

\* C13 as written: a method outside the mapping requires no scope and is
\* never answered 403
C13_UnmappedNeverDenied ==
  [][(C13_Checked /\ exchange'.body.method \notin C13_Mapped) =>
       /\ exchange'.requiredScope = NoScope
       /\ exchange'.status # 403]_vars

\* what holds: of the names that are not properties every object inherits
C13_ExceptInherited ==
  [][(/\ C13_Checked /\ exchange'.body.method \notin C13_Mapped
      /\ exchange'.body.method # "toString") =>
       /\ exchange'.requiredScope = NoScope
       /\ exchange'.status # 403]_vars

(***************************************************************************)
(* C14: for every known operation op (the eleven tools),                   *)
(* getRequiredScope('tools/' + op) equals getRequiredScope(op), and both   *)
(* are exactly one scope of read, write, execute, terminal.                *)
(***************************************************************************)
C14_PrefixEquivalence ==
  \A op \in Tools :
    (call.op = "getRequiredScope" /\ call.method \in {op, "tools/" \o op}) =>
      /\ call.scope \in {"read", "write", "execute", "terminal"}
      /\ call.scope = getRequiredScope(op)
      /\ call.scope = getRequiredScope("tools/" \o op)

\* the namespaced spelling of send_terminal was looked up
C14_Witness ==
  /\ call.op = "getRequiredScope"
  /\ call.method = "tools/send_terminal" /\ call.scope = "terminal"

(***************************************************************************)
(* C15: in every reachable state, after any sequence of createSession,     *)
(* validateSession, destroySession and cleanupExpiredSessions, every       *)
(* stored record satisfies expiresAt = createdAt + 30 minutes; a           *)
(* successful validation (touch) never extends or otherwise changes the    *)
(* expiry.                                                                 *)
(***************************************************************************)
C15_FixedLifetime(store) ==
  \A k \in DOMAIN store :
    store[k].expiresAt = store[k].createdAt + ThirtyMinutes

\* C15: every stored record expires 30 minutes after its creation, and a
\* successful validateSession leaves createdAt and expiresAt as they were
C15_ExpiryFixed ==
  [][/\ C15_FixedLifetime(sessions) /\ C15_FixedLifetime(sessions')
     /\ (call.op = "none" /\ call'.op = "validateSession"
           /\ call'.result # Null) =>
          /\ call'.sessionId \in DOMAIN sessions'
          /\ sessions'[call'.sessionId].expiresAt
               = sessions[call'.sessionId].expiresAt
          /\ sessions'[call'.sessionId].createdAt
               = sessions[call'.sessionId].createdAt
          /\ call'.result.expiresAt = sessions[call'.sessionId].expiresAt]_vars

\* a record was touched at its last valid instant and still expires then
C15_Witness ==
  /\ call.op = "validateSession" /\ call.result # Null
  /\ now = call.result.expiresAt
  /\ sessions[call.sessionId].lastActivity = now
  /\ sessions[call.sessionId].expiresAt
       = sessions[call.sessionId].createdAt + ThirtyMinutes

(***************************************************************************)
(* C16: every request accepted by handleRequest eventually receives a      *)
(* response: if the backend never answers a dispatched call, the call is   *)
(* cut off by a timeout and the request completes as a dispatcher failure, *)
(* so no request blocks forever.                                           *)
(***************************************************************************)
\* C16 as written: a call to the backend that is in flight ends, by an
\* answer or by a timeout, so the request that made it completes
C16_NoCallBlocksForever ==
  (backend.state = "pending") ~> (backend.state = "none")

(***************************************************************************)
(* C17: under any interleaving of concurrent requests on the same session  *)
(* id with destroySession and cleanupExpiredSessions, each store operation *)
(* acts atomically on the record: a record removed by destroy or sweep is  *)
(* never put back by a concurrent validateSession's touch, and a touch of  *)
(* a still-unexpired record is never lost to a concurrent sweep.           *)
(***************************************************************************)
\* a request that holds a validated session goes on after its await
C17_Continues ==
  /\ exchange.phase = "awaiting" /\ exchange.validated # NoId
  /\ exchange'.phase = "responded"

\* C17: a record enters the store only by a handshake's createSession; a
\* request that goes on after its await with a session it validated before
\* writes nothing to the store; a validateSession of a record that is not in
\* the store leaves it out; a sweep keeps every unexpired record with the
\* lastActivity its last touch wrote
C17_AtomicStoreOps ==
  [][/\ \A k \in SessionIds :
          (k \notin DOMAIN sessions /\ k \in DOMAIN sessions') =>
            (exchange.phase = "awaiting" /\ exchange.validated = NoId
               /\ exchange'.created = k)
     /\ C17_Continues => sessions' = sessions
     /\ (call.op = "none" /\ call'.op = "validateSession") =>
          /\ DOMAIN sessions' \subseteq DOMAIN sessions
          /\ Live(sessions, call'.sessionId, now) =>
               /\ call'.sessionId \in DOMAIN sessions'
               /\ sessions'[call'.sessionId].lastActivity = now
     /\ (call.op = "none" /\ call'.op = "cleanupExpiredSessions") =>
          \A k \in DOMAIN sessions :
            now <= sessions[k].expiresAt =>
              (k \in DOMAIN sessions' /\ sessions'[k] = sessions[k])]_vars

\* a request was answered 200 although its session was destroyed or swept
\* while it waited for its body, and the record is still gone
C17_Witness ==
  /\ exchange.phase = "responded" /\ exchange.status = 200
  /\ exchange.validated # NoId /\ exchange.scopeChecked
  /\ exchange.validated \notin DOMAIN sessions
  /\ Cardinality(DOMAIN sessions) = 1

(***************************************************************************)
(* C18: createSession returns an id that collides with no live record: it  *)
(* never overwrites an existing record, so the store grows by exactly one  *)
(* record per call and every id that was live before the call still        *)
(* validates to its own unchanged record.                                  *)
(***************************************************************************)
C18_NoCollision ==
  [][(call.op = "none" /\ call'.op = "createSession") =>
       /\ call'.sessionId \notin DOMAIN sessions
       /\ Cardinality(DOMAIN sessions') = Cardinality(DOMAIN sessions) + 1
       /\ \A k \in DOMAIN sessions :
            Live(sessions, k, now) =>
              /\ k \in DOMAIN sessions'
              /\ sessions'[k] = sessions[k]]_vars

\* what holds: the new record is stored under the returned id and every
\* record under another id is left as it was
C18_OthersUntouched ==
  [][(call.op = "none" /\ call'.op = "createSession") =>
       /\ sessions'[call'.sessionId] = call'.result
       /\ DOMAIN sessions' = DOMAIN sessions \cup {call'.sessionId}
       /\ \A k \in DOMAIN sessions \ {call'.sessionId} :
            sessions'[k] = sessions[k]]_vars

(***************************************************************************)
(* C19: sweep has no correctness dependency: for any sequence of           *)
(* createSession, validateSession and destroySession calls at given times, *)
(* inserting cleanupExpiredSessions calls anywhere changes neither the     *)
(* result of any validateSession call nor the fields of any record a       *)
(* validateSession returns.                                                *)
(***************************************************************************)
\* what a validateSession of id at time t answers on a store: not-found, or
\* the record with its lastActivity moved to t
C19_Answer(store, id, t) ==
  IF id \in DOMAIN store /\ t <= store[id].expiresAt
  THEN [store[id] EXCEPT !.lastActivity = t]
  ELSE Null

\* C19: every validateSession returns what the same call returns in the run
\* without the sweeps, and the two stores then hold the same record
C19_SweepIsInvisible ==
  [][(call.op = "none" /\ call'.op = "validateSession") =>
       /\ call'.result = C19_Answer(unswept, call'.sessionId, now)
       /\ call'.result # Null =>
            /\ call'.sessionId \in DOMAIN unswept'
            /\ sessions'[call'.sessionId] = unswept'[call'.sessionId]]_vars

\* a validateSession returned a record after a sweep had removed another
\* record, which the run without sweeps still stores
C19_Witness ==
  /\ call.op = "validateSession" /\ call.result # Null
  /\ DOMAIN unswept # DOMAIN sessions

(***************************************************************************)
(* C20: cleanupExpiredSessions removes every record with now > expiresAt   *)
(* and no other: each record with now <= expiresAt stays in the store with *)
(* all its fields unchanged (its lastActivity is not touched).             *)
(***************************************************************************)
C20_SweepFrame ==
  [][(call.op = "none" /\ call'.op = "cleanupExpiredSessions") =>
       /\ DOMAIN sessions' =
            {k \in DOMAIN sessions : now <= sessions[k].expiresAt}
       /\ \A k \in DOMAIN sessions' :
            /\ sessions'[k] = sessions[k]
            /\ sessions'[k].lastActivity = sessions[k].lastActivity]_vars

\* a sweep has removed an expired record and kept one that was touched
\* after its creation and is in its last valid instant
C20_Witness ==
  /\ call.op = "cleanupExpiredSessions"
  /\ \E k \in DOMAIN unswept \ DOMAIN sessions : now > unswept[k].expiresAt
  /\ \E j \in DOMAIN sessions :
       /\ sessions[j].lastActivity > sessions[j].createdAt
       /\ now = sessions[j].expiresAt

(***************************************************************************)
(* C21: destroySession is idempotent and never fails: destroying an id     *)
(* that is absent raises no error and leaves the store unchanged,          *)
(* destroying the same id twice gives the same store as destroying it      *)
(* once, and no record other than the named one is affected.               *)
(***************************************************************************)
\* a store without the record of id, every other record as in store
C21_Without(store, id) ==
  [k \in {i \in DOMAIN store : i # id} |-> store[k]]

C21_DestroyIdempotent ==
  [][(call.op = "none" /\ call'.op = "destroySession") =>
       /\ running'
       /\ call'.sessionId \notin DOMAIN sessions => sessions' = sessions
       /\ sessions' = C21_Without(sessions, call'.sessionId)
       /\ C21_Without(sessions', call'.sessionId) = sessions']_vars

\* a destroySession has returned, the record it named is not in the store
\* and a record that was touched before is
C21_Witness ==
  /\ call.op = "destroySession"
  /\ call.sessionId \notin DOMAIN sessions
  /\ \E k \in DOMAIN sessions :
       sessions[k].lastActivity > sessions[k].createdAt

(***************************************************************************)
(* C22: within each request the steps run in the fixed order token check,  *)
(* session lookup or creation, scope check, dispatch: the dispatcher is    *)
(* called only in a request where the token passed the format check, then  *)
(* validateSession returned a record, then the scope check passed; and the *)
(* session store is read or written only after the token check passed.     *)
(***************************************************************************)
\* a step of the request being served
C22_RequestStep == exchange' # exchange /\ exchange'.phase # "idle"

\* the scope check of the request let the session through
C22_ScopePassed(x) ==
  /\ x.scopeChecked
  /\ \/ x.requiredScope = NoScope
     \/ "admin" \in x.session.scopes
     \/ x.requiredScope \in x.session.scopes

\* C22: the dispatcher is called only after the token check, the lookup of
\* the session (in an earlier step of the request) and the scope check; a
\* request whose token has not passed reads and writes no session
C22_StepOrder ==
  [][C22_RequestStep =>
       /\ (exchange'.dispatched /\ ~exchange.dispatched) =>
            /\ exchange.phase = "awaiting"
            /\ FormatValid(exchange.authorization)
            /\ exchange.validated # NoId /\ exchange.session # Null
            /\ exchange.session.id = exchange.validated
            /\ ~exchange.scopeChecked
            /\ exchange'.session = exchange.session
            /\ C22_ScopePassed(exchange')
       /\ exchange'.scopeChecked => exchange'.session # Null
       /\ (\/ exchange'.validated # NoId \/ exchange'.created # NoId
           \/ sessions' # sessions) =>
            FormatValid(exchange'.authorization)]_vars

\* a message with id 0 went through token check, lookup and scope check
\* (scope read) to the dispatcher
C22_Witness ==
  /\ exchange.phase = "responded" /\ exchange.dispatched
  /\ exchange.requiredScope = "read" /\ exchange.body.hasId
  /\ exchange.body.id = 0 /\ exchange.status = 200

(***************************************************************************)
(* C23: the store gains a record only through a handshake: over any        *)
(* sequence of requests, a record is added only by a request with a        *)
(* format-valid token, no effective session id and method 'initialize';    *)
(* every other request (a non-handshake method without a session,          *)
(* 'initialize' sent with a valid session id, every rejected request)      *)
(* leaves the set of stored ids unchanged or smaller.                      *)
(***************************************************************************)
\* the request served is a handshake
C23_IsHandshake(x) ==
  /\ Routed(x) /\ FormatValid(x.authorization)
  /\ Effective(x) = NoId
  /\ x.body.kind = "message" /\ x.body.method = "initialize"

\* C23: a request that is not a handshake adds no id and creates no record;
\* a handshake adds the one id it returns
C23_OnlyHandshakeAdds ==
  [][Served =>
       IF C23_IsHandshake(exchange')
       THEN /\ DOMAIN sessions' = DOMAIN sessions \cup {exchange'.sessionHeader}
            /\ sessions'[exchange'.sessionHeader].createdAt = now
       ELSE /\ DOMAIN sessions' \subseteq DOMAIN sessions
            /\ \A k \in DOMAIN sessions' :
                 /\ sessions'[k].createdAt = sessions[k].createdAt
                 /\ sessions'[k].userId = sessions[k].userId]_vars

\* 'initialize' was sent with a valid session id at a later time: it was
\* answered 200 and the store holds the one record it held
C23_Witness ==
  /\ exchange.phase = "responded" /\ exchange.status = 200
  /\ exchange.validated # NoId /\ exchange.body.method = "initialize"
  /\ exchange.created = NoId
  /\ DOMAIN sessions = {exchange.validated}
  /\ sessions[exchange.validated].createdAt < now

(***************************************************************************)
(* C24: a session is not bound to the token that created it: for two       *)
(* requests identical except for the bearer token, both tokens             *)
(* format-valid, run from the same store state at the same time, the       *)
(* response status, the decision to dispatch and the resulting store state *)
(* are the same.                                                           *)
(***************************************************************************)
\* the Authorization headers of the model with a format-valid token
C24_ValidHeaders == {a \in AuthHeaders : FormatValid(a)}

\* C24: whatever a request with a format-valid token did, the same request
\* with any other format-valid token can do from the same store at the same
\* time: same status, same decision to dispatch, same store afterwards
C24_TokenIndependent ==
  [][(Served /\ Routed(exchange') /\ FormatValid(exchange'.authorization)) =>
       \A other \in C24_ValidHeaders :
         \E o \in handleRequest(sessions, now, serverInstance,
                                exchange'.verb, exchange'.path,
                                exchange'.query, exchange'.header, other,
                                IF exchange'.body = Unread THEN Unparsable
                                ELSE exchange'.body,
                                exchange'.failure) :
           /\ o.exchange.status = exchange'.status
           /\ o.exchange.sent = exchange'.sent
           /\ o.exchange.dispatched = exchange'.dispatched
           /\ o.exchange.resBody = exchange'.resBody
           /\ o.exchange.sessionHeader = exchange'.sessionHeader
           /\ o.sessions = sessions'
           /\ o.running = running']_vars

\* a session was used under the second token while the store holds two
\* sessions, both of the default user
C24_Witness ==
  /\ exchange.phase = "responded" /\ exchange.status = 200
  /\ exchange.authorization = "Bearer bp_sk_other1"
  /\ exchange.validated # NoId /\ exchange.scopeChecked
  /\ Cardinality(DOMAIN sessions) = 2
  /\ \A k \in DOMAIN sessions : sessions[k].userId = "demo-user"

(***************************************************************************)
(* C25: in every reachable state, with a non-decreasing clock, every       *)
(* stored record satisfies createdAt <= lastActivity <= expiresAt, is      *)
(* stored under the key equal to its id field, and its id, userId, scopes  *)
(* and createdAt never change between its creation and its removal;        *)
(* lastActivity never decreases.                                           *)
(***************************************************************************)
\* the state part: the order of the three times, and key = id
C25_WellFormed(store) ==
  \A k \in DOMAIN store :
    /\ store[k].createdAt <= store[k].lastActivity
    /\ store[k].lastActivity <= store[k].expiresAt
    /\ store[k].id = k

\* the record under k keeps its identity over the step
C25_Kept(k) ==
  /\ sessions'[k].id = sessions[k].id
  /\ sessions'[k].userId = sessions[k].userId
  /\ sessions'[k].scopes = sessions[k].scopes
  /\ sessions'[k].createdAt = sessions[k].createdAt

\* C25 as written: every stored record is well-formed, and a record that
\* stays in the store over a step keeps id, userId, scopes and createdAt
\* and does not go back in lastActivity
C25_RecordInvariants ==
  [][/\ C25_WellFormed(sessions) /\ C25_WellFormed(sessions')
     /\ \A k \in DOMAIN sessions \cap DOMAIN sessions' :
          /\ C25_Kept(k)
          /\ sessions'[k].lastActivity >= sessions[k].lastActivity]_vars

\* what holds: the same, of every step but a createSession whose generated
\* id is already a key of the store
C25_ExceptOverwrite ==
  [][/\ C25_WellFormed(sessions) /\ C25_WellFormed(sessions')
     /\ \A k \in DOMAIN sessions \cap DOMAIN sessions' :
          /\ sessions'[k].lastActivity >= sessions[k].lastActivity
          /\ ~(call'.op = "createSession" /\ call.op = "none"
                 /\ call'.sessionId = k) => C25_Kept(k)]_vars

====
